---- MODULE Spec2Model ----
\* A model of xe::gpu::SpirvBuilder (src/xenia/gpu/spirv_builder.cc): the
\* N-ary instruction emitter createQuadOp, the constant-folding switch it
\* honours, and the structured-if helper SpirvBuilder::IfBuilder; and of
\* xe::gpu::d3d12::PrimitiveConverter::ConvertPrimitives
\* (src/xenia/gpu/d3d12/primitive_converter.cc).
EXTENDS Integers, Sequences, FiniteSets, TLC

VARIABLES
    uniqueId,                      \* spv::Builder::uniqueId, the last id handed out
    buildPoint,                    \* spv::Builder::buildPoint, id of the current Block
    generatingOpCodeForSpecConst,  \* spv::Builder::generatingOpCodeForSpecConst
    blocks,                        \* block id -> [instructions, predecessors]
    functionBlocks,                \* spv::Function::blocks, the attached blocks in order
    specConstants,                 \* constant expressions recorded by createSpecConstantOp
    idType,                        \* result id -> type id (spv::Module::getTypeId)
    ifs,                           \* the IfBuilder objects constructed so far
    hist,                          \* per IfBuilder: where it was constructed and the
                                   \* calls made on it (history)
    lastCall,                      \* the operation that ran last, its arguments and result
    aborted,                       \* an assertion has failed and the program has stopped
    NDEBUG,                        \* the build defines NDEBUG (assertions compiled out)
    decorations,                   \* spv::Builder::decorations, as <<id, decoration>>
    convertArgs,                   \* the arguments of the last ConvertPrimitives call
    allocation,                    \* what AllocateIndices got in that call
    written,                       \* the 16-bit words stored through target, in order
    conversionResult,              \* what the call returned, or that it faulted
    index_count_out                \* the caller's index_count_out

vars == <<uniqueId, buildPoint, generatingOpCodeForSpecConst, blocks,
          functionBlocks, specConstants, idType, ifs, hist, lastCall,
          aborted, NDEBUG, decorations, convertArgs, allocation, written,
          conversionResult, index_count_out>>

\* The state of the emitter and of the primitive converter.
builder == <<uniqueId, buildPoint, generatingOpCodeForSpecConst, blocks,
             functionBlocks, specConstants, idType, ifs, hist, lastCall,
             aborted, NDEBUG, decorations>>
converter == <<convertArgs, allocation, written, conversionResult,
               index_count_out>>

-----------------------------------------------------------------------------
\* Bounds of the model.

\* Largest id getUniqueId may hand out.
MaxId == 10

\* Largest number of IfBuilder objects constructed in one run.
MaxIfs == 2

\* Largest number of makeBeginElse / makeEndIf calls made in one run.
MaxCalls == 3

\* Largest number of value-producing calls (createQuadOp, the builtin calls,
\* the no-contraction wrappers, createMergePhi).
MaxOps == 2

\* Largest index_count passed to ConvertPrimitives.
MaxIndexCount == 5

-----------------------------------------------------------------------------
\* Inputs.

\* Values defined before the modelled session starts, with their type ids.
PreValues == (3 :> 1) @@ (4 :> 2)

\* Arguments callers pass to createQuadOp, as <<op_code, type_id, operand1,
\* operand2, operand3, operand4>>: every pair of operand positions differs in
\* at least one tuple.
QuadArgs == {<<"OpQuadA", 1, 3, 4, 3, 4>>, <<"OpQuadB", 2, 4, 4, 3, 3>>}

\* Arguments callers give to the IfBuilder constructor, as
\* <<condition, control, thenWeight, elseWeight>>: both conditions, both
\* control masks, no weight, a then-weight only and an else-weight only.
IfArgs == {<<3, 0, 0, 0>>, <<4, 1, 1, 0>>, <<3, 1, 0, 2>>}

\* Arguments callers pass to the builtin-call emitters, as <<result_type,
\* builtins, entry_point, operand...>>; the extended instruction set has id 2.
UnaryBuiltinArgs == {<<1, 2, 7, 4>>}
BinBuiltinArgs == {<<2, 2, 8, 4, 3>>}
TriBuiltinArgs == {<<1, 2, 9, 4, 3, 4>>}

\* Arguments callers pass to the no-contraction wrappers, as <<op_code,
\* type_id, operand...>>.
NoContractionUnaryArgs == {<<"OpFNegate", 1, 3>>}
NoContractionBinArgs == {<<"OpFAdd", 2, 4, 3>>}

\* What guest memory holds at the address passed to ConvertPrimitives, as
\* 16-bit words: enough for MaxIndexCount indices of either format.
Sources ==
    {[k \in 1..(2 * MaxIndexCount) |-> 100 + k],
     [k \in 1..(2 * MaxIndexCount) |-> IF k % 2 = 1 THEN 7 * k ELSE 0]}

\* The state before the first ConvertPrimitives call.
NoArgs == [source_type |-> "none"]
NoAllocation == [size |-> 0, offset |-> 0, mapped |-> FALSE]

\* elseBlock == nullptr, and the NoResult / NoType ids of an instruction
\* without result.
NullBlock == 0
NoResult == 0
NoType == 0

-----------------------------------------------------------------------------
\* spv::Instruction, spv::Block, spv::Function as the builder uses them.

Instruction(resultId, typeId, opCode) ==
    [resultId |-> resultId, typeId |-> typeId, opCode |-> opCode,
     operands |-> <<>>]

addIdOperand(inst, id) ==
    [inst EXCEPT !.operands = Append(@, <<"id", id>>)]

addImmediateOperand(inst, imm) ==
    [inst EXCEPT !.operands = Append(@, <<"imm", imm>>)]

\* new spv::Block(id, function): no instruction, no predecessor, not attached.
NewBlock == [instructions |-> <<>>, predecessors |-> {}]

\* Block::addInstruction on block b of the block table blks.
addInstruction(blks, b, inst) ==
    [blks EXCEPT ![b].instructions = Append(@, inst)]

\* Block::addPredecessor: block b gets predecessor pred.
addPredecessor(blks, b, pred) ==
    [blks EXCEPT ![b].predecessors = @ \cup {pred}]

\* Function::addBlock.
addBlock(fb, b) == Append(fb, b)

\* Module::mapInstruction: remember the type of a result id.
mapInstruction(types, inst) ==
    IF inst.resultId = NoResult THEN types
    ELSE (inst.resultId :> inst.typeId) @@ types

\* Builder::getTypeId.
getTypeId(id) == idType[id]

\* Builder::createBranch(block) at build point bp.
createBranch(blks, bp, block) ==
    addPredecessor(
        addInstruction(blks, bp,
            addIdOperand(Instruction(NoResult, NoType, "OpBranch"), block)),
        block, bp)

\* Builder::createSelectionMerge(mergeBlock, control) at build point bp.
createSelectionMerge(blks, bp, mergeBlock, control) ==
    addInstruction(blks, bp,
        addImmediateOperand(
            addIdOperand(Instruction(NoResult, NoType, "OpSelectionMerge"),
                         mergeBlock),
            control))

\* Builder::createSpecConstantOp(opCode, typeId, operands, literals) with no
\* literals: the constant expression it records under the fresh id.
createSpecConstantOp(id, opCode, typeId, operands) ==
    LET op0 == addImmediateOperand(
                   Instruction(id, typeId, "OpSpecConstantOp"), opCode)
    IN  [op0 EXCEPT !.operands =
            @ \o [k \in 1..Len(operands) |-> <<"id", operands[k]>>]]

\* The id operands of an instruction, in order.
IdOperands(inst) ==
    LET sel == SelectSeq(inst.operands, LAMBDA o : o[1] = "id")
    IN  [k \in 1..Len(sel) |-> sel[k][2]]

\* The immediate operands of an instruction, in order.
ImmOperands(inst) ==
    LET sel == SelectSeq(inst.operands, LAMBDA o : o[1] = "imm")
    IN  [k \in 1..Len(sel) |-> sel[k][2]]

-----------------------------------------------------------------------------
\* The record of the last call: its name, the IfBuilder it was made on (0 for
\* the emitter), its arguments, the id it returned and the build point on entry.

Call(name, self, args, result, entry) ==
    [name |-> name, self |-> self, args |-> args, result |-> result,
     entry |-> entry]

Running == ~aborted

\* An entry of an IfBuilder's history: the call, its argument, and the build
\* point when it was made.
Entry(name, branchToMerge) ==
    [name |-> name, branchToMerge |-> branchToMerge, entry |-> buildPoint]

\* The makeBeginElse / makeEndIf calls made so far.
RECURSIVE CallsMade(_)
CallsMade(n) == IF n = 0 THEN 0 ELSE Len(hist[n].calls) + CallsMade(n - 1)

\* IfBuilder objects are scoped: a builder is driven only while every builder
\* constructed after it has been closed.
Closed(h) == \E k \in 1..Len(h) : h[k].name = "makeEndIf"
InScope(self) == \A j \in (self + 1)..Len(ifs) : Closed(hist[j].calls)

\* The scope a new IfBuilder is constructed in: the innermost builder not yet
\* closed (0 when there is none) and the region of it being built.
OpenBuilders == {i \in 1..Len(ifs) : ~Closed(hist[i].calls)}
Scope ==
    IF OpenBuilders = {} THEN [parent |-> 0, region |-> "none", calls |-> <<>>]
    ELSE LET p == CHOOSE i \in OpenBuilders : \A k \in OpenBuilders : k <= i
         IN  [parent |-> p,
              region |-> IF hist[p].calls = <<>> THEN "then" ELSE "else",
              calls |-> <<>>]

\* The value-producing calls made so far.
OpsMade == Cardinality(DOMAIN idType) - Cardinality(DOMAIN PreValues)

-----------------------------------------------------------------------------
Init ==
    /\ NDEBUG \in BOOLEAN
    /\ uniqueId = 5
    /\ buildPoint = 5
    /\ generatingOpCodeForSpecConst = FALSE
    /\ blocks = (5 :> NewBlock)
    /\ functionBlocks = <<5>>
    /\ specConstants = <<>>
    /\ idType = PreValues
    /\ ifs = <<>>
    /\ hist = <<>>
    /\ lastCall = Call("init", 0, <<>>, 0, 5)
    /\ aborted = FALSE
    /\ decorations = {}
    /\ convertArgs = NoArgs
    /\ allocation = NoAllocation
    /\ written = <<>>
    /\ conversionResult = "none"
    /\ index_count_out = 0

-----------------------------------------------------------------------------
\* SpirvBuilder::createQuadOp: the state change and the id it returns
\* (uniqueId' in both branches).

\* createQuadOp emitting at the build point whatever the mode is.
createQuadOp_AlwaysEmit(op_code, type_id, operand1, operand2, operand3, operand4) ==
    /\ uniqueId' = uniqueId + 1
    /\ LET op == addIdOperand(addIdOperand(addIdOperand(addIdOperand(
                     Instruction(uniqueId + 1, type_id, op_code),
                     operand1), operand2), operand3), operand4)
       IN  /\ blocks' = addInstruction(blocks, buildPoint, op)
           /\ idType' = mapInstruction(idType, op)
           /\ specConstants' = specConstants

\* createQuadOp adding operand2 before operand1.
createQuadOp_Swapped(op_code, type_id, operand1, operand2, operand3, operand4) ==
    /\ uniqueId' = uniqueId + 1
    /\ IF generatingOpCodeForSpecConst
       THEN LET operands == <<operand1, operand2, operand3, operand4>>
                c == createSpecConstantOp(uniqueId + 1, op_code, type_id,
                                          operands)
            IN  /\ specConstants' = Append(specConstants, c)
                /\ idType' = mapInstruction(idType, c)
                /\ blocks' = blocks
       ELSE LET op == addIdOperand(addIdOperand(addIdOperand(addIdOperand(
                          Instruction(uniqueId + 1, type_id, op_code),
                          operand2), operand1), operand3), operand4)
            IN  /\ blocks' = addInstruction(blocks, buildPoint, op)
                /\ idType' = mapInstruction(idType, op)
                /\ specConstants' = specConstants

createQuadOp(op_code, type_id, operand1, operand2, operand3, operand4) ==
    /\ uniqueId' = uniqueId + 1
    /\ IF generatingOpCodeForSpecConst
       THEN LET operands == <<operand1, operand2, operand3, operand4>>
                c == createSpecConstantOp(uniqueId + 1, op_code, type_id,
                                          operands)
            IN  /\ specConstants' = Append(specConstants, c)
                /\ idType' = mapInstruction(idType, c)
                /\ blocks' = blocks
       ELSE LET op == addIdOperand(addIdOperand(addIdOperand(addIdOperand(
                          Instruction(uniqueId + 1, type_id, op_code),
                          operand1), operand2), operand3), operand4)
            IN  /\ blocks' = addInstruction(blocks, buildPoint, op)
                /\ idType' = mapInstruction(idType, op)
                /\ specConstants' = specConstants

\* A call of createQuadOp by the shader translator.
CallQuadOp ==
    \E a \in QuadArgs :
        /\ Running
        /\ uniqueId < MaxId
        /\ OpsMade < MaxOps
        /\ createQuadOp(a[1], a[2], a[3], a[4], a[5], a[6])
        /\ lastCall' = Call("createQuadOp", 0, a, uniqueId + 1, buildPoint)
        /\ UNCHANGED <<buildPoint, generatingOpCodeForSpecConst,
                       functionBlocks, ifs, hist, aborted, NDEBUG,
                       decorations, converter>>

\* spv::Builder::setToSpecConstCodeGenMode / setToNormalCodeGenMode.
SetCodeGenMode ==
    \E mode \in BOOLEAN :
        /\ Running
        /\ mode # generatingOpCodeForSpecConst
        /\ generatingOpCodeForSpecConst' = mode
        /\ lastCall' = Call("setCodeGenMode", 0, <<mode>>, 0, buildPoint)
        /\ UNCHANGED <<uniqueId, buildPoint, blocks, functionBlocks,
                       specConstants, idType, ifs, hist, aborted, NDEBUG,
                       decorations, converter>>

-----------------------------------------------------------------------------
\* The builtin-call emitters: an OpExtInst instruction at the build point.

\* The unary call reusing the last id instead of taking a fresh one.
createUnaryBuiltinCall_StaleId(result_type, builtins, entry_point, operand) ==
    /\ uniqueId' = uniqueId
    /\ LET instruction == addIdOperand(addImmediateOperand(addIdOperand(
                              Instruction(uniqueId, result_type, "OpExtInst"),
                              builtins), entry_point), operand)
       IN  /\ blocks' = addInstruction(blocks, buildPoint, instruction)
           /\ idType' = mapInstruction(idType, instruction)

\* SpirvBuilder::createUnaryBuiltinCall; it returns uniqueId'.
createUnaryBuiltinCall(result_type, builtins, entry_point, operand) ==
    /\ uniqueId' = uniqueId + 1
    /\ LET instruction == addIdOperand(addImmediateOperand(addIdOperand(
                              Instruction(uniqueId + 1, result_type, "OpExtInst"),
                              builtins), entry_point), operand)
       IN  /\ blocks' = addInstruction(blocks, buildPoint, instruction)
           /\ idType' = mapInstruction(idType, instruction)

\* The binary call honouring the constant-folding mode as createQuadOp does.
createBinBuiltinCall_Folding(result_type, builtins, entry_point, operand1, operand2) ==
    /\ uniqueId' = uniqueId + 1
    /\ LET instruction == addIdOperand(addIdOperand(addImmediateOperand(
                              addIdOperand(
                              Instruction(uniqueId + 1, result_type, "OpExtInst"),
                              builtins), entry_point), operand1), operand2)
       IN  /\ blocks' = IF generatingOpCodeForSpecConst THEN blocks
                        ELSE addInstruction(blocks, buildPoint, instruction)
           /\ idType' = mapInstruction(idType, instruction)

\* SpirvBuilder::createBinBuiltinCall; it returns uniqueId'.
createBinBuiltinCall(result_type, builtins, entry_point, operand1, operand2) ==
    /\ uniqueId' = uniqueId + 1
    /\ LET instruction == addIdOperand(addIdOperand(addImmediateOperand(
                              addIdOperand(
                              Instruction(uniqueId + 1, result_type, "OpExtInst"),
                              builtins), entry_point), operand1), operand2)
       IN  /\ blocks' = addInstruction(blocks, buildPoint, instruction)
           /\ idType' = mapInstruction(idType, instruction)

\* SpirvBuilder::createTriBuiltinCall; it returns uniqueId'.
createTriBuiltinCall(result_type, builtins, entry_point, operand1, operand2, operand3) ==
    /\ uniqueId' = uniqueId + 1
    /\ LET instruction == addIdOperand(addIdOperand(addIdOperand(
                              addImmediateOperand(addIdOperand(
                              Instruction(uniqueId + 1, result_type, "OpExtInst"),
                              builtins), entry_point), operand1), operand2),
                              operand3)
       IN  /\ blocks' = addInstruction(blocks, buildPoint, instruction)
           /\ idType' = mapInstruction(idType, instruction)

\* What a builtin call or a wrapper call leaves alone.
EmitterFrame ==
    UNCHANGED <<buildPoint, generatingOpCodeForSpecConst, functionBlocks, ifs,
                hist, aborted, NDEBUG, converter>>

\* Calls of the three emitters by the shader translator.
CallUnaryBuiltin ==
    \E a \in UnaryBuiltinArgs :
        /\ Running
        /\ uniqueId < MaxId
        /\ OpsMade < MaxOps
        /\ createUnaryBuiltinCall(a[1], a[2], a[3], a[4])
        /\ lastCall' = Call("createUnaryBuiltinCall", 0, a, uniqueId', buildPoint)
        /\ UNCHANGED <<specConstants, decorations>>
        /\ EmitterFrame

CallBinBuiltin ==
    \E a \in BinBuiltinArgs :
        /\ Running
        /\ uniqueId < MaxId
        /\ OpsMade < MaxOps
        /\ createBinBuiltinCall(a[1], a[2], a[3], a[4], a[5])
        /\ lastCall' = Call("createBinBuiltinCall", 0, a, uniqueId', buildPoint)
        /\ UNCHANGED <<specConstants, decorations>>
        /\ EmitterFrame

CallTriBuiltin ==
    \E a \in TriBuiltinArgs :
        /\ Running
        /\ uniqueId < MaxId
        /\ OpsMade < MaxOps
        /\ createTriBuiltinCall(a[1], a[2], a[3], a[4], a[5], a[6])
        /\ lastCall' = Call("createTriBuiltinCall", 0, a, uniqueId', buildPoint)
        /\ UNCHANGED <<specConstants, decorations>>
        /\ EmitterFrame

-----------------------------------------------------------------------------
\* The no-contraction wrappers.

\* spv::Builder::createUnaryOp / createBinOp with the given id operands: a
\* constant expression in constant-folding mode, else an instruction at the
\* build point; the result id is uniqueId'.
createOp(op_code, type_id, operands) ==
    /\ uniqueId' = uniqueId + 1
    /\ IF generatingOpCodeForSpecConst
       THEN LET c == createSpecConstantOp(uniqueId + 1, op_code, type_id,
                                          operands)
            IN  /\ specConstants' = Append(specConstants, c)
                /\ idType' = mapInstruction(idType, c)
                /\ blocks' = blocks
       ELSE LET op == [Instruction(uniqueId + 1, type_id, op_code) EXCEPT
                          !.operands = [k \in 1..Len(operands) |->
                                           <<"id", operands[k]>>]]
            IN  /\ blocks' = addInstruction(blocks, buildPoint, op)
                /\ idType' = mapInstruction(idType, op)
                /\ specConstants' = specConstants

\* spv::Builder::addDecoration(id, decoration).
addDecoration(decs, id, decoration) == decs \cup {<<id, decoration>>}

\* SpirvBuilder::createNoContractionUnaryOp.
createNoContractionUnaryOp(op_code, type_id, operand) ==
    /\ createOp(op_code, type_id, <<operand>>)
    /\ decorations' = addDecoration(decorations, uniqueId',
                                    "DecorationNoContraction")

\* SpirvBuilder::createNoContractionBinOp.
createNoContractionBinOp(op_code, type_id, operand1, operand2) ==
    /\ createOp(op_code, type_id, <<operand1, operand2>>)
    /\ decorations' = addDecoration(decorations, uniqueId',
                                    "DecorationNoContraction")

CallNoContractionUnaryOp ==
    \E a \in NoContractionUnaryArgs :
        /\ Running
        /\ uniqueId < MaxId
        /\ OpsMade < MaxOps
        /\ createNoContractionUnaryOp(a[1], a[2], a[3])
        /\ lastCall' = Call("createNoContractionUnaryOp", 0, a, uniqueId',
                            buildPoint)
        /\ EmitterFrame

CallNoContractionBinOp ==
    \E a \in NoContractionBinArgs :
        /\ Running
        /\ uniqueId < MaxId
        /\ OpsMade < MaxOps
        /\ createNoContractionBinOp(a[1], a[2], a[3], a[4])
        /\ lastCall' = Call("createNoContractionBinOp", 0, a, uniqueId',
                            buildPoint)
        /\ EmitterFrame

-----------------------------------------------------------------------------
\* SpirvBuilder::IfBuilder.

\* enum class Branch; the member exists only in builds without NDEBUG and
\* starts at kThen.
InitialBranch == IF NDEBUG THEN "absent" ELSE "kThen"

\* The constructor attaching the merge block together with the then block.
CtorFunctionBlocks_AttachMerge(fb, thenBlock, mergeBlock) ==
    addBlock(addBlock(fb, thenBlock), mergeBlock)

\* The blocks the constructor puts into the function: only the then block.
CtorFunctionBlocks(fb, thenBlock, mergeBlock) == addBlock(fb, thenBlock)

\* The constructor leaving the build point at the header.
CtorBuildPoint_Header(thenBlock, headerBlock) == headerBlock

\* builder.setBuildPoint(thenBlock)
CtorBuildPoint(thenBlock, headerBlock) == thenBlock

\* SpirvBuilder::IfBuilder::IfBuilder.
IfBuilder ==
    \E a \in IfArgs :
        /\ Running
        /\ Len(ifs) < MaxIfs
        /\ uniqueId + 2 <= MaxId
        /\ LET thenBlock == uniqueId + 1
               mergeBlock == uniqueId + 2
               headerBlock == buildPoint
               headerBlockId == headerBlock
           IN  /\ uniqueId' = uniqueId + 2
               /\ blocks' = (thenBlock :> NewBlock) @@ (mergeBlock :> NewBlock)
                            @@ blocks
               /\ ifs' = Append(ifs,
                     [condition |-> a[1], control |-> a[2],
                      thenWeight |-> a[3], elseWeight |-> a[4],
                      thenBlock |-> thenBlock, elseBlock |-> NullBlock,
                      mergeBlock |-> mergeBlock, headerBlock |-> headerBlock,
                      thenPhiParent |-> headerBlockId,
                      elsePhiParent |-> headerBlockId,
                      currentBranch |-> InitialBranch])
               /\ hist' = Append(hist, Scope)
               /\ functionBlocks' = CtorFunctionBlocks(functionBlocks,
                                                       thenBlock, mergeBlock)
               /\ buildPoint' = CtorBuildPoint(thenBlock, headerBlock)
               /\ lastCall' = Call("IfBuilder", Len(ifs) + 1, a, 0, buildPoint)
        /\ UNCHANGED <<generatingOpCodeForSpecConst, specConstants, idType,
                       aborted, NDEBUG,
                       decorations, converter>>

\* The makeBeginElse assertion also letting a second call through.
BeginElseAsserts_Lax(ib) == NDEBUG \/ ib.currentBranch \in {"kThen", "kElse"}

\* assert_true(currentBranch == Branch::kThen), compiled under #ifndef NDEBUG.
BeginElseAsserts(ib) == NDEBUG \/ ib.currentBranch = "kThen"

\* The makeEndIf assertion also letting a call in the merged phase through.
EndIfAsserts_Lax(ib) ==
    NDEBUG \/ ib.currentBranch \in {"kThen", "kElse", "kMerge"}

\* assert_true(currentBranch == kThen || currentBranch == kElse), likewise.
EndIfAsserts(ib) == NDEBUG \/ ib.currentBranch \in {"kThen", "kElse"}

\* assert_true(builder.getBuildPoint() == mergeBlock); assert_true expands to
\* nothing when NDEBUG is defined.
MergePhiAsserts(ib) == NDEBUG \/ buildPoint = ib.mergeBlock

\* currentBranch = ..., compiled under #ifndef NDEBUG.
SetBranch(ib, branch) ==
    IF NDEBUG THEN ib ELSE [ib EXCEPT !.currentBranch = branch]

\* A failed assertion stops the program; nothing else changes.
AssertionFailure(name, self) ==
    /\ aborted' = TRUE
    /\ lastCall' = Call(name, self, <<>>, 0, buildPoint)
    /\ UNCHANGED <<uniqueId, buildPoint, generatingOpCodeForSpecConst, blocks,
                   functionBlocks, specConstants, idType, ifs, hist, NDEBUG,
                       decorations, converter>>

\* makeBeginElse not recording the end of the then region.
BeginElsePhiParent_Stale(ib, branchToMerge, bp) == ib

\* thenPhiParent = builder.getBuildPoint()->getId(), if (branchToMerge).
BeginElsePhiParent(ib, branchToMerge, bp) ==
    IF branchToMerge THEN [ib EXCEPT !.thenPhiParent = bp] ELSE ib

\* makeBeginElse leaving the else block out of the function.
BeginElseFunctionBlocks_Detached(fb, elseBlock) == fb

\* function.addBlock(elseBlock)
BeginElseFunctionBlocks(fb, elseBlock) == addBlock(fb, elseBlock)

\* SpirvBuilder::IfBuilder::makeBeginElse, past its assertion.
BeginElse(self, branchToMerge) ==
    LET ib == ifs[self]
        elseBlock == uniqueId + 1
        closed == IF branchToMerge
                  THEN createBranch(blocks, buildPoint, ib.mergeBlock)
                  ELSE blocks
        ib1 == BeginElsePhiParent(ib, branchToMerge, buildPoint)
    IN  /\ uniqueId' = uniqueId + 1
        /\ blocks' = (elseBlock :> NewBlock) @@ closed
        /\ functionBlocks' = BeginElseFunctionBlocks(functionBlocks, elseBlock)
        /\ buildPoint' = elseBlock
        /\ ifs' = [ifs EXCEPT
                     ![self] = SetBranch([ib1 EXCEPT !.elseBlock = elseBlock],
                                         "kElse")]

makeBeginElse ==
    \E self \in 1..Len(ifs), branchToMerge \in BOOLEAN :
        /\ Running
        /\ CallsMade(Len(ifs)) < MaxCalls
        /\ InScope(self)
        /\ IF BeginElseAsserts(ifs[self])
           THEN /\ uniqueId < MaxId
                /\ BeginElse(self, branchToMerge)
                /\ hist' = [hist EXCEPT ![self].calls =
                              Append(@, Entry("makeBeginElse", branchToMerge))]
                /\ lastCall' = Call("makeBeginElse", self, <<branchToMerge>>,
                                    0, buildPoint)
                /\ UNCHANGED <<generatingOpCodeForSpecConst, specConstants,
                               idType, aborted, NDEBUG,
                       decorations, converter>>
           ELSE AssertionFailure("makeBeginElse", self)

\* The false target always being the merge block.
FalseBlock_AlwaysMerge(ib) == ib.mergeBlock

\* The false target of the conditional branch.
FalseBlock(ib) ==
    IF ib.elseBlock # NullBlock THEN ib.elseBlock ELSE ib.mergeBlock

\* The weights being added only when both are non-zero.
HasWeights_Both(ib) == ib.thenWeight # 0 /\ ib.elseWeight # 0

\* if (thenWeight || elseWeight)
HasWeights(ib) == ib.thenWeight # 0 \/ ib.elseWeight # 0

\* The OpBranchConditional instruction makeEndIf builds.
BranchConditional(ib) ==
    LET branch == addIdOperand(addIdOperand(addIdOperand(
                      Instruction(NoResult, NoType, "OpBranchConditional"),
                      ib.condition), ib.thenBlock), FalseBlock(ib))
    IN  IF HasWeights(ib)
        THEN addImmediateOperand(addImmediateOperand(branch, ib.thenWeight),
                                 ib.elseWeight)
        ELSE branch

\* makeEndIf recording the build point whatever branchToMerge is.
EndIfPhiParent_Always(ib, branchToMerge, bp) ==
    IF ib.elseBlock # NullBlock
    THEN [ib EXCEPT !.elsePhiParent = bp]
    ELSE [ib EXCEPT !.thenPhiParent = bp]

\* makeEndIf recording the then block instead of the current build point.
EndIfPhiParent_ThenBlock(ib, branchToMerge, bp) ==
    IF ~branchToMerge THEN ib
    ELSE IF ib.elseBlock # NullBlock
         THEN [ib EXCEPT !.elsePhiParent = bp]
         ELSE [ib EXCEPT !.thenPhiParent = ib.thenBlock]

\* The phi parent makeEndIf records when the region branches to the merge.
EndIfPhiParent(ib, branchToMerge, bp) ==
    IF ~branchToMerge THEN ib
    ELSE IF ib.elseBlock # NullBlock
         THEN [ib EXCEPT !.elsePhiParent = bp]
         ELSE [ib EXCEPT !.thenPhiParent = bp]

\* makeEndIf attaching the false target instead of the merge block.
EndIfFunctionBlocks_FalseBlock(fb, ib) == addBlock(fb, FalseBlock(ib))

\* function.addBlock(mergeBlock)
EndIfFunctionBlocks(fb, ib) == addBlock(fb, ib.mergeBlock)

\* makeEndIf making the split where the build point is.
EndIfHeader_BuildPoint(ib, bp) == bp

\* builder.setBuildPoint(headerBlock): the block that gets the split.
EndIfHeader(ib, bp) == ib.headerBlock

\* SpirvBuilder::IfBuilder::makeEndIf, past its assertion.
EndIf(self, branchToMerge) ==
    LET ib == ifs[self]
        closed == IF branchToMerge
                  THEN createBranch(blocks, buildPoint, ib.mergeBlock)
                  ELSE blocks
        header == EndIfHeader(ib, buildPoint)
        merged == createSelectionMerge(closed, header, ib.mergeBlock,
                                       ib.control)
        split == addInstruction(merged, header, BranchConditional(ib))
        linked == addPredecessor(
                      addPredecessor(split, ib.thenBlock, header),
                      FalseBlock(ib), header)
    IN  /\ blocks' = linked
        /\ functionBlocks' = EndIfFunctionBlocks(functionBlocks, ib)
        /\ buildPoint' = ib.mergeBlock
        /\ ifs' = [ifs EXCEPT
                     ![self] = SetBranch(
                                   EndIfPhiParent(ib, branchToMerge,
                                                  buildPoint), "kMerge")]

makeEndIf ==
    \E self \in 1..Len(ifs), branchToMerge \in BOOLEAN :
        /\ Running
        /\ CallsMade(Len(ifs)) < MaxCalls
        /\ InScope(self)
        /\ IF EndIfAsserts(ifs[self])
           THEN /\ EndIf(self, branchToMerge)
                /\ hist' = [hist EXCEPT ![self].calls =
                              Append(@, Entry("makeEndIf", branchToMerge))]
                /\ lastCall' = Call("makeEndIf", self, <<branchToMerge>>, 0,
                                    buildPoint)
                /\ UNCHANGED <<uniqueId, generatingOpCodeForSpecConst,
                               specConstants, idType, aborted, NDEBUG,
                       decorations, converter>>
           ELSE AssertionFailure("makeEndIf", self)

\* The phi taking the type of the else value.
MergePhiType_Else(then_variable, else_variable) == getTypeId(else_variable)

\* builder.getTypeId(then_variable)
MergePhiType(then_variable, else_variable) == getTypeId(then_variable)

\* SpirvBuilder::IfBuilder::createMergePhi.
createMergePhi ==
    \E self \in 1..Len(ifs), then_variable \in DOMAIN idType,
       else_variable \in DOMAIN PreValues :
        /\ Running
        /\ IF MergePhiAsserts(ifs[self])
           THEN /\ uniqueId < MaxId
                /\ OpsMade < MaxOps
                /\ createQuadOp("OpPhi",
                                MergePhiType(then_variable, else_variable),
                                then_variable, ifs[self].thenPhiParent,
                                else_variable, ifs[self].elsePhiParent)
                /\ lastCall' = Call("createMergePhi", self,
                                    <<then_variable, else_variable>>,
                                    uniqueId + 1, buildPoint)
                /\ UNCHANGED <<buildPoint, generatingOpCodeForSpecConst,
                               functionBlocks, ifs, hist, aborted, NDEBUG,
                       decorations, converter>>
           ELSE AssertionFailure("createMergePhi", self)

Next ==
    \/ CallQuadOp
    \/ SetCodeGenMode
    \/ IfBuilder
    \/ makeBeginElse
    \/ makeEndIf
    \/ createMergePhi

Spec == Init /\ [][Next]_vars

\* The instruction emitters with the blocks of the structured-if helper under
\* them.
NextEmitter ==
    \/ CallQuadOp
    \/ SetCodeGenMode
    \/ CallUnaryBuiltin
    \/ CallBinBuiltin
    \/ CallTriBuiltin
    \/ CallNoContractionUnaryOp
    \/ CallNoContractionBinOp
    \/ IfBuilder
    \/ makeBeginElse
    \/ makeEndIf

SpecEmitter == Init /\ [][NextEmitter]_vars

-----------------------------------------------------------------------------
\* PrimitiveConverter.

\* The page size Initialize gives the upload buffer pool.
PoolPageSize == 4 * 1024 * 1024

\* xe::align(value, alignment); with at most MaxIndexCount indices no uint32_t
\* of the call comes near 2^32.
align(value, alignment) ==
    ((value + alignment - 1) \div alignment) * alignment

\* sizeof(uint32_t) or sizeof(uint16_t).
IndexSize(format) == IF format = "kInt32" THEN 4 ELSE 2

\* The size AllocateIndices requests from the pool.
AllocationSize(format, count, simd_offset) ==
    LET size == align(count * IndexSize(format), 16)
    IN  IF simd_offset % 16 # 0 THEN size + 16 ELSE size

\* PrimitiveConverter::AllocateIndices: no buffer for count = 0 or when
\* RequestFull returns nullptr, else size bytes at the offset of the page
\* RequestFull picked.
AllocateIndices(format, count, simd_offset, offset, requestFails) ==
    IF count = 0 \/ requestFails THEN NoAllocation
    ELSE [size |-> AllocationSize(format, count, simd_offset),
          offset |-> offset, mapped |-> TRUE]

\* source_16[i] / source_32[i]: the index at place i of the source, read in
\* the host's byte order.
ReadIndex(source, format, i) ==
    IF format = "kInt32"
    THEN source[2 * i + 1] + 65536 * source[2 * i + 2]
    ELSE source[i + 1]

\* *(target_16++) = v / *(target_32++) = v on the words stored so far.
WriteIndex(words, format, v) ==
    IF format = "kInt32"
    THEN words \o <<v % 65536, (v \div 65536) % 65536>>
    ELSE Append(words, v % 65536)

\* The three stores of one iteration of the triangle fan loop.
FanTriangle(words, source, format, i) ==
    WriteIndex(WriteIndex(WriteIndex(words, format,
        ReadIndex(source, format, i)), format,
        ReadIndex(source, format, i - 1)), format,
        ReadIndex(source, format, 0))

\* for (uint32_t i = 2; i < index_count; ++i), from i on.
RECURSIVE FanLoop(_, _, _, _, _)
FanLoop(words, source, format, i, index_count) ==
    IF i < index_count
    THEN FanLoop(FanTriangle(words, source, format, i), source, format,
                 i + 1, index_count)
    ELSE words

\* What the stores of a call can do: within the allocation they are plain
\* stores; past its end but inside the mapped page they overwrite what
\* follows in the page; past the end of the page the behaviour is undefined,
\* the stores land or the process faults.
StoreOutcomes(alloc, bytes) ==
    IF bytes <= alloc.size THEN {"stored"}
    ELSE IF alloc.offset + bytes <= PoolPageSize THEN {"overrun"}
    ELSE {"overrun", "fault"}

\* What a returning call leaves alone.
Returns(result) ==
    /\ conversionResult' = result
    /\ UNCHANGED index_count_out

\* PrimitiveConverter::ConvertPrimitives.
ConvertPrimitives ==
    \E source_type \in {"kTriangleFan", "kTriangleStrip", "kLineStrip",
                         "kTriangleList"},
       index_count \in 0..MaxIndexCount,
       index_format \in {"kInt16", "kInt32"},
       reset \in BOOLEAN,
       reset_index \in {"0xFFFF", "0xFFFFFFFF"},
       source \in Sources,
       requestFails \in BOOLEAN,
       atPageEnd \in BOOLEAN :
        LET reset_index_host ==
                IF index_format = "kInt32" THEN "0xFFFFFFFF" ELSE "0xFFFF"
            converted_index_count == 3 * (index_count - 2)
            size == AllocationSize(index_format, index_count, 0)
            target == AllocateIndices(index_format, index_count, 0,
                          IF atPageEnd THEN PoolPageSize - size ELSE 0,
                          requestFails)
            words == FanLoop(<<>>, source, index_format, 2, index_count)
        IN  /\ conversionResult # "fault"
            /\ convertArgs' =
                  [source_type |-> source_type, index_count |-> index_count,
                   index_format |-> index_format, reset |-> reset,
                   reset_index |-> reset_index, source |-> source]
            /\ IF source_type # "kTriangleFan"
               THEN /\ IF ~reset \/ reset_index = reset_index_host
                       THEN Returns("kConversionNotNeeded")
                       ELSE IF source_type # "kTriangleStrip"
                               \/ source_type # "kLineStrip"
                       THEN Returns("kConversionNotNeeded")
                       ELSE Returns("kConversionNotNeeded")
                    /\ allocation' = NoAllocation
                    /\ written' = <<>>
               ELSE IF index_count < 3
               THEN /\ Returns("kPrimitiveEmpty")
                    /\ allocation' = NoAllocation
                    /\ written' = <<>>
               ELSE IF reset
               THEN /\ Returns("kFailed")
                    /\ allocation' = NoAllocation
                    /\ written' = <<>>
               ELSE IF ~target.mapped
               THEN /\ Returns("kFailed")
                    /\ allocation' = NoAllocation
                    /\ written' = <<>>
               ELSE /\ allocation' = target
                    /\ \E outcome \in StoreOutcomes(target, 2 * Len(words)) :
                          IF outcome = "fault"
                          THEN /\ Returns("fault")
                               /\ written' = SubSeq(words, 1, target.size \div 2)
                          ELSE /\ conversionResult' = "kConverted"
                               /\ index_count_out' = converted_index_count
                               /\ written' = words
        /\ UNCHANGED builder

NextConverter == ConvertPrimitives

SpecConverter == Init /\ [][NextConverter]_vars

-----------------------------------------------------------------------------
\* Vocabulary of the properties.

Last(s) == s[Len(s)]

\* The places of block b in the function's block list.
Positions(b) == {k \in 1..Len(functionBlocks) : functionBlocks[k] = b}

\* Block a is attached, block b is attached, and a comes before b.
Precedes(a, b) ==
    /\ Positions(a) # {}
    /\ Positions(b) # {}
    /\ \A p \in Positions(a), q \in Positions(b) : p < q

\* The calls drove the builder Then -> (Else) -> Merged and nothing more.
Driven(h) ==
    \/ Len(h) = 1 /\ h[1].name = "makeEndIf"
    \/ Len(h) = 2 /\ h[1].name = "makeBeginElse" /\ h[2].name = "makeEndIf"

\* The same with branchToMerge = true at each transition.
DrivenTrue(h) == Driven(h) /\ \A k \in 1..Len(h) : h[k].branchToMerge

\* No builder of the run has been called outside Then -> (Else) -> Merged.
WellDriven ==
    \A j \in 1..Len(ifs) :
        \/ Len(hist[j].calls) = 0
        \/ Len(hist[j].calls) = 1
        \/ Driven(hist[j].calls)

\* The last call was made on builder i and returned.
Returned(name, i) ==
    lastCall.name = name /\ lastCall.self = i /\ ~aborted

\* Every instruction and constant expression built so far.
AllRecords ==
    UNION {{blocks[b].instructions[k] : k \in 1..Len(blocks[b].instructions)}
           : b \in DOMAIN blocks}
    \cup {specConstants[k] : k \in 1..Len(specConstants)}

\* The operation a record stands for: its opcode, or the opcode a constant
\* expression wraps.
JoinOp(r) ==
    IF r.opCode = "OpSpecConstantOp" THEN ImmOperands(r)[1] ELSE r.opCode

\* Block b ends in an OpBranch to m, the only OpBranch of b.
EndsInOneBranchTo(b, m) ==
    LET ins == blocks[b].instructions
    IN  /\ Len(ins) > 0
        /\ Last(ins).opCode = "OpBranch"
        /\ Last(ins).operands = <<(<<"id", m>>)>>
        /\ Cardinality({k \in 1..Len(ins) : ins[k].opCode = "OpBranch"}) = 1

\* The header of ib ends in an OpBranchConditional on the condition to the
\* then block and to the else block if there is one, else the merge block; it
\* is the only conditional branch of the header.
HeaderSplits(ib) ==
    LET ins == blocks[ib.headerBlock].instructions
    IN  /\ Len(ins) > 0
        /\ Last(ins).opCode = "OpBranchConditional"
        /\ IdOperands(Last(ins)) =
              <<ib.condition, ib.thenBlock,
                IF ib.elseBlock # NullBlock THEN ib.elseBlock
                ELSE ib.mergeBlock>>
        /\ Cardinality({k \in 1..Len(ins) :
                           ins[k].opCode = "OpBranchConditional"}) = 1

-----------------------------------------------------------------------------
\* C1: for a builder driven construction -> (makeBeginElse(true)) ->
\* makeEndIf(true), the then block precedes the else block, both precede the
\* merge block in the function's block list, and the merge block is the last
\* block of the function when makeEndIf returns.
C1_BlockOrder ==
    \A i \in 1..Len(ifs) :
        DrivenTrue(hist[i].calls) =>
            /\ Precedes(ifs[i].thenBlock, ifs[i].mergeBlock)
            /\ ifs[i].elseBlock # NullBlock =>
                  /\ Precedes(ifs[i].thenBlock, ifs[i].elseBlock)
                  /\ Precedes(ifs[i].elseBlock, ifs[i].mergeBlock)
            /\ Returned("makeEndIf", i) =>
                  Last(functionBlocks) = ifs[i].mergeBlock

C1_Witness ==
    \E i \in 1..Len(ifs) :
        /\ DrivenTrue(hist[i].calls)
        /\ Len(hist[i].calls) = 2
        /\ Returned("makeEndIf", i)
        /\ Len(functionBlocks) >= 4

\* C2 as stated: after a run of well-driven builders, for a builder driven
\* with branchToMerge = true at each transition, then_block and else_block
\* themselves each end in exactly one unconditional branch to merge_block, and
\* header_block ends in exactly one conditional branch on the condition to
\* then_block and to else_block if present, else merge_block.
C2_Original ==
    WellDriven =>
        \A i \in 1..Len(ifs) :
            DrivenTrue(hist[i].calls) =>
                /\ EndsInOneBranchTo(ifs[i].thenBlock, ifs[i].mergeBlock)
                /\ ifs[i].elseBlock # NullBlock =>
                      EndsInOneBranchTo(ifs[i].elseBlock, ifs[i].mergeBlock)
                /\ HeaderSplits(ifs[i])

\* Builder j was constructed in the given region of builder i.
ConstructedIn(j, i, region) ==
    hist[j].parent = i /\ hist[j].region = region

\* C2, amended: the last block of the then region and of the else region (the
\* build point when the region was closed, which is then_block / else_block
\* itself unless a nested builder was constructed in the region) each end in
\* exactly one unconditional branch to merge_block, and header_block ends in
\* exactly one conditional branch on the condition to then_block and to
\* else_block if present, else merge_block.
C2_RegionsBranchToMerge ==
    WellDriven =>
        \A i \in 1..Len(ifs) :
            DrivenTrue(hist[i].calls) =>
                LET h == hist[i].calls
                IN  /\ \A k \in 1..Len(h) :
                          EndsInOneBranchTo(h[k].entry, ifs[i].mergeBlock)
                    /\ (\A j \in 1..Len(ifs) : ~ConstructedIn(j, i, "then"))
                          => h[1].entry = ifs[i].thenBlock
                    /\ (Len(h) = 2 /\
                        \A j \in 1..Len(ifs) : ~ConstructedIn(j, i, "else"))
                          => h[2].entry = ifs[i].elseBlock
                    /\ HeaderSplits(ifs[i])

C2_Witness ==
    /\ WellDriven
    /\ \E i \in 1..Len(ifs) :
          /\ DrivenTrue(hist[i].calls)
          /\ Len(hist[i].calls) = 2
          /\ hist[i].calls[1].entry # ifs[i].thenBlock
          /\ Returned("makeEndIf", i)

\* C3: createMergePhi(a, b) called after makeEndIf builds one join whose id
\* operands are exactly (a, then_phi_parent, b, else_phi_parent) in that
\* order and whose result type is the type of a; outside constant-folding mode
\* it is an OpPhi instruction with these four operands and no other, in
\* constant-folding mode the constant expression createQuadOp records for
\* OpPhi.
C3_MergePhiOperands ==
    (lastCall.name = "createMergePhi" /\ ~aborted
        /\ Closed(hist[lastCall.self].calls)) =>
        LET ib == ifs[lastCall.self]
            made == {r \in AllRecords : r.resultId = lastCall.result}
        IN  /\ Cardinality(made) = 1
            /\ \A r \in made :
                  /\ JoinOp(r) = "OpPhi"
                  /\ IdOperands(r) = <<lastCall.args[1], ib.thenPhiParent,
                                       lastCall.args[2], ib.elsePhiParent>>
                  /\ r.typeId = idType[lastCall.args[1]]
                  /\ ~generatingOpCodeForSpecConst =>
                        r.opCode = "OpPhi" /\ Len(r.operands) = 4

C3_Witness ==
    /\ lastCall.name = "createMergePhi"
    /\ ~aborted
    /\ Closed(hist[lastCall.self].calls)
    /\ ~generatingOpCodeForSpecConst
    /\ idType[lastCall.args[1]] # idType[lastCall.args[2]]
    /\ ifs[lastCall.self].thenPhiParent # ifs[lastCall.self].elsePhiParent
    /\ idType[lastCall.result] = idType[lastCall.args[1]]

\* C4 as stated: a makeBeginElse made on a builder that already had a
\* makeBeginElse or a makeEndIf is rejected by the assertion: the program
\* stops, no block is allocated or attached, no branch is emitted and the
\* build point stays.
C4_Original ==
    [][(lastCall'.name = "makeBeginElse"
           /\ hist[lastCall'.self].calls # <<>>) =>
          /\ aborted'
          /\ UNCHANGED <<uniqueId, blocks, functionBlocks, buildPoint, ifs>>
      ]_vars

\* C4, amended: in a build without NDEBUG, a makeBeginElse made on a builder
\* that already had a makeBeginElse or a makeEndIf is rejected by the
\* assertion: the program stops, no block is allocated or attached, no branch
\* is emitted and the build point stays.
C4_RejectedWithAssertions ==
    [][(~NDEBUG /\ lastCall'.name = "makeBeginElse"
           /\ hist[lastCall'.self].calls # <<>>) =>
          /\ aborted'
          /\ UNCHANGED <<uniqueId, blocks, functionBlocks, buildPoint, ifs>>
      ]_vars

C4_Witness ==
    /\ aborted
    /\ lastCall.name = "makeBeginElse"
    /\ Last(hist[lastCall.self].calls).name = "makeBeginElse"
    /\ ifs[lastCall.self].elseBlock = Last(functionBlocks)

\* C5: the conditional branch makeEndIf appends to the header carries the two
\* weights (thenWeight, elseWeight, in that order) as immediates after its
\* three ids if and only if at least one of them is non-zero; otherwise it has
\* exactly the three id operands.
C5_BranchWeights ==
    (lastCall.name = "makeEndIf" /\ ~aborted) =>
        LET ib == ifs[lastCall.self]
            br == Last(blocks[ib.headerBlock].instructions)
        IN  /\ br.opCode = "OpBranchConditional"
            /\ Len(IdOperands(br)) = 3
            /\ \A k \in 1..3 : br.operands[k][1] = "id"
            /\ IF ib.thenWeight # 0 \/ ib.elseWeight # 0
               THEN /\ Len(br.operands) = 5
                    /\ br.operands[4] = <<"imm", ib.thenWeight>>
                    /\ br.operands[5] = <<"imm", ib.elseWeight>>
               ELSE Len(br.operands) = 3

C5_Witness ==
    /\ lastCall.name = "makeEndIf"
    /\ ~aborted
    /\ ifs[lastCall.self].thenWeight = 0
    /\ ifs[lastCall.self].elseWeight # 0
    /\ Len(Last(blocks[ifs[lastCall.self].headerBlock].instructions).operands) = 5

\* The place of a phase in Then -> Else -> Merged.
Rank(branch) ==
    CASE branch = "kThen" -> 1
      [] branch = "kElse" -> 2
      [] branch = "kMerge" -> 3

\* The phase of builder i: currentBranch where the build has the member, and
\* otherwise the phase the accepted calls have brought the builder to.
Phase(i) ==
    IF ~NDEBUG THEN ifs[i].currentBranch
    ELSE IF Closed(hist[i].calls) THEN "kMerge"
    ELSE IF hist[i].calls # <<>> THEN "kElse"
    ELSE "kThen"

\* C6 as stated: the phase of every builder only moves forward, makeEndIf is
\* accepted only in phase Then or Else, and when it returns the phase is
\* Merged and the build point is merge_block.
C6_Original ==
    [][/\ \A i \in 1..Len(ifs) : Rank(Phase(i)') >= Rank(Phase(i))
       /\ (lastCall'.name = "makeEndIf" /\ ~aborted') =>
             \A i \in 1..Len(ifs) :
                 i = lastCall'.self =>
                     /\ Phase(i) \in {"kThen", "kElse"}
                     /\ Phase(i)' = "kMerge"
                     /\ buildPoint' = ifs[i].mergeBlock
      ]_vars

\* C6, amended: in a build without NDEBUG the phase (currentBranch) of every
\* builder only moves forward, makeEndIf is accepted only in phase Then or
\* Else and leaves the phase Merged; in every build the build point is
\* merge_block when makeEndIf returns.
C6_PhaseForward ==
    [][/\ ~NDEBUG =>
             \A i \in 1..Len(ifs) :
                 Rank(ifs'[i].currentBranch) >= Rank(ifs[i].currentBranch)
       /\ (lastCall'.name = "makeEndIf" /\ ~aborted') =>
             /\ buildPoint' = ifs[lastCall'.self].mergeBlock
             /\ ~NDEBUG =>
                   /\ ifs[lastCall'.self].currentBranch \in {"kThen", "kElse"}
                   /\ ifs'[lastCall'.self].currentBranch = "kMerge"
      ]_vars

C6_Witness ==
    /\ ~NDEBUG
    /\ lastCall.name = "makeEndIf"
    /\ ~aborted
    /\ Len(hist[lastCall.self].calls) = 2
    /\ ifs[lastCall.self].currentBranch = "kMerge"
    /\ buildPoint = ifs[lastCall.self].mergeBlock

\* The builders constructed directly in the then region of builder i.
InThen(i) == {j \in 1..Len(ifs) : ConstructedIn(j, i, "then")}

\* C7: for a builder closed by makeEndIf(true) with no makeBeginElse, the
\* join a later createMergePhi builds has the header block id as the parent
\* of its second pair and, as the parent of its first pair, the id of the
\* build point at the makeEndIf call: then_block, or the merge block of the
\* last builder nested in the then region.
C7_NoElsePhiParents ==
    (lastCall.name = "createMergePhi" /\ ~aborted
        /\ Len(hist[lastCall.self].calls) = 1
        /\ DrivenTrue(hist[lastCall.self].calls)) =>
        LET i == lastCall.self
            e == hist[i].calls[1].entry
        IN  /\ \E r \in AllRecords :
                  /\ r.resultId = lastCall.result
                  /\ IdOperands(r)[1] = lastCall.args[1]
                  /\ IdOperands(r)[2] = e
                  /\ IdOperands(r)[3] = lastCall.args[2]
                  /\ IdOperands(r)[4] = ifs[i].headerBlock
            /\ InThen(i) = {} => e = ifs[i].thenBlock
            /\ (WellDriven /\ InThen(i) # {}) =>
                  \E j \in InThen(i) :
                      /\ \A k \in InThen(i) : k <= j
                      /\ e = ifs[j].mergeBlock

C7_Witness ==
    /\ lastCall.name = "createMergePhi"
    /\ ~aborted
    /\ WellDriven
    /\ Len(hist[lastCall.self].calls) = 1
    /\ DrivenTrue(hist[lastCall.self].calls)
    /\ InThen(lastCall.self) # {}
    /\ ifs[lastCall.self].thenPhiParent # ifs[lastCall.self].thenBlock
    /\ buildPoint = ifs[lastCall.self].mergeBlock

\* The blocks builder j has allocated.
BlocksOf(j) ==
    {ifs[j].thenBlock, ifs[j].mergeBlock} \cup
    (IF ifs[j].elseBlock # NullBlock THEN {ifs[j].elseBlock} ELSE {})

\* C8: when an inner builder j is constructed and driven to Merged in the Then
\* phase of an outer builder i, the header of j is then_block of i or the
\* merge block of an earlier builder nested there; once the then region of i
\* is closed with branchToMerge = true, the build point of that moment, the
\* merge block of the last nested builder, ends in the one unconditional
\* branch to merge_block of i, which is no block of j and has that block as
\* predecessor; and once i is closed, every block of j precedes merge_block of
\* i in the function.
C8_NestingKeepsOuter ==
    WellDriven =>
        \A i \in 1..Len(ifs) : \A j \in InThen(i) :
            Closed(hist[j].calls) =>
                /\ \/ ifs[j].headerBlock = ifs[i].thenBlock
                   \/ \E k \in InThen(i) :
                         k < j /\ ifs[j].headerBlock = ifs[k].mergeBlock
                /\ ifs[i].mergeBlock \notin BlocksOf(j)
                /\ (hist[i].calls # <<>> /\ hist[i].calls[1].branchToMerge) =>
                      LET e == hist[i].calls[1].entry
                      IN  /\ EndsInOneBranchTo(e, ifs[i].mergeBlock)
                          /\ e \in blocks[ifs[i].mergeBlock].predecessors
                          /\ \E m \in InThen(i) :
                                /\ \A k \in InThen(i) : k <= m
                                /\ e = ifs[m].mergeBlock
                /\ Closed(hist[i].calls) =>
                      \A b \in BlocksOf(j) : Precedes(b, ifs[i].mergeBlock)

C8_Witness ==
    /\ WellDriven
    /\ \E i \in 1..Len(ifs) : \E j \in InThen(i) :
          /\ Driven(hist[j].calls)
          /\ DrivenTrue(hist[i].calls)
          /\ Returned("makeEndIf", i)
          /\ ifs[j].headerBlock = ifs[i].thenBlock
          /\ Last(functionBlocks) = ifs[i].mergeBlock

\* C9: a createQuadOp call made outside constant-folding mode appends exactly
\* one instruction to the end of the build point's block, with the opcode, the
\* type and the four id operands in argument order, leaves every other block
\* and the build point alone, and returns the new instruction's id; so a
\* sequence of calls grows the block by the number of calls, in call order.
C9_QuadOpAppends ==
    [][(lastCall'.name = "createQuadOp" /\ ~generatingOpCodeForSpecConst) =>
          LET a == lastCall'.args
              op == [resultId |-> uniqueId + 1, typeId |-> a[2],
                     opCode |-> a[1],
                     operands |-> << <<"id", a[3]>>, <<"id", a[4]>>,
                                     <<"id", a[5]>>, <<"id", a[6]>> >>]
          IN  /\ blocks' = [blocks EXCEPT
                               ![buildPoint].instructions = Append(@, op)]
              /\ buildPoint' = buildPoint
              /\ lastCall'.result = uniqueId + 1
              /\ specConstants' = specConstants
      ]_vars

C9_Witness ==
    LET ins == blocks[buildPoint].instructions
    IN  /\ lastCall.name = "createQuadOp"
        /\ ~generatingOpCodeForSpecConst
        /\ Len(ins) >= 2
        /\ ins[Len(ins)].resultId = lastCall.result
        /\ ins[Len(ins) - 1].resultId = lastCall.result - 1
        /\ ins[Len(ins) - 1].opCode \in {a[1] : a \in QuadArgs}
        /\ IdOperands(ins[Len(ins)]) # IdOperands(ins[Len(ins) - 1])

\* C10: a createQuadOp call made in constant-folding mode appends to no block
\* and leaves the build point and the function's block list alone; it records
\* one constant expression with the same opcode, type and four operands in
\* the same order, and returns that expression's id.
C10_FoldedQuadOp ==
    [][(lastCall'.name = "createQuadOp" /\ generatingOpCodeForSpecConst) =>
          LET a == lastCall'.args
              c == Last(specConstants')
          IN  /\ blocks' = blocks
              /\ buildPoint' = buildPoint
              /\ functionBlocks' = functionBlocks
              /\ Len(specConstants') = Len(specConstants) + 1
              /\ SubSeq(specConstants', 1, Len(specConstants)) = specConstants
              /\ JoinOp(c) = a[1]
              /\ c.typeId = a[2]
              /\ IdOperands(c) = <<a[3], a[4], a[5], a[6]>>
              /\ c.resultId = lastCall'.result
              /\ lastCall'.result = uniqueId + 1
      ]_vars

C10_Witness ==
    /\ lastCall.name = "createQuadOp"
    /\ generatingOpCodeForSpecConst
    /\ specConstants # <<>>
    /\ Last(specConstants).resultId = lastCall.result
    /\ \A b \in DOMAIN blocks :
          \A k \in 1..Len(blocks[b].instructions) :
              blocks[b].instructions[k].resultId # lastCall.result

-----------------------------------------------------------------------------
\* The number of times block b is attached to the function.
Attachments(b) == Cardinality(Positions(b))

\* C11 as stated: once makeEndIf has been accepted on a builder, each block
\* the builder allocated (then_block, else_block if begun, merge_block) is in
\* the function's block list exactly once, whatever sequence of accepted calls
\* led there.
C11_Original ==
    \A i \in 1..Len(ifs) :
        Closed(hist[i].calls) =>
            \A b \in BlocksOf(i) : Attachments(b) = 1

\* C11, amended: for a builder driven construction -> (makeBeginElse) ->
\* makeEndIf and no further, each block it allocated is in the function's
\* block list exactly once from makeEndIf on, and on the way there then_block
\* and a begun else_block are attached once and merge_block not at all; a
\* build without NDEBUG accepts no other sequence that reaches makeEndIf.
C11_AttachedOnce ==
    \A i \in 1..Len(ifs) :
        LET h == hist[i].calls
        IN  /\ Driven(h) => \A b \in BlocksOf(i) : Attachments(b) = 1
            /\ (h = <<>> \/ (Len(h) = 1 /\ h[1].name = "makeBeginElse")) =>
                  /\ Attachments(ifs[i].thenBlock) = 1
                  /\ Attachments(ifs[i].mergeBlock) = 0
                  /\ (h # <<>>) => Attachments(ifs[i].elseBlock) = 1
            /\ (~NDEBUG /\ Closed(h)) => Driven(h)

C11_Witness ==
    \E i \in 1..Len(ifs) :
        /\ Driven(hist[i].calls)
        /\ Len(hist[i].calls) = 2
        /\ \E j \in 1..Len(ifs) : hist[j].parent = i /\ Closed(hist[j].calls)
        /\ Len(functionBlocks) = 6
        /\ \A b \in BlocksOf(i) : Attachments(b) = 1

-----------------------------------------------------------------------------
BuiltinCalls ==
    {"createUnaryBuiltinCall", "createBinBuiltinCall", "createTriBuiltinCall"}

\* The OpExtInst instruction a builtin call with arguments a = <<result_type,
\* builtins, entry_point, operand...>> is to build under the result id.
ExtInst(id, a) ==
    [resultId |-> id, typeId |-> a[1], opCode |-> "OpExtInst",
     operands |-> << <<"id", a[2]>>, <<"imm", a[3]>> >> \o
                  [k \in 1..(Len(a) - 3) |-> <<"id", a[3 + k]>>]]

\* C12: in both emitter modes a call of createUnaryBuiltinCall,
\* createBinBuiltinCall or createTriBuiltinCall appends exactly one OpExtInst
\* instruction to the block at the build point, with operands (extension-set
\* id, immediate entry-point index, the one to three operand ids in argument
\* order), records no constant expression, leaves every other block and the
\* build point alone, and returns the instruction's result id.
C12_BuiltinCallsNeverFold ==
    [][(lastCall'.name \in BuiltinCalls) =>
          /\ blocks' = [blocks EXCEPT ![buildPoint].instructions =
                           Append(@, ExtInst(lastCall'.result, lastCall'.args))]
          /\ lastCall'.result \notin DOMAIN idType
          /\ specConstants' = specConstants
          /\ buildPoint' = buildPoint
          /\ functionBlocks' = functionBlocks
          /\ generatingOpCodeForSpecConst' = generatingOpCodeForSpecConst
      ]_vars

C12_Witness ==
    LET ins == blocks[buildPoint].instructions
    IN  /\ lastCall.name = "createBinBuiltinCall"
        /\ generatingOpCodeForSpecConst
        /\ specConstants # <<>>
        /\ Len(ins) = 1
        /\ ins[1].resultId = lastCall.result
        /\ Last(specConstants).resultId = lastCall.result - 1
        /\ ins[1].operands =
              << <<"id", 2>>, <<"imm", 8>>, <<"id", 4>>, <<"id", 3>> >>

-----------------------------------------------------------------------------
\* The calls that construct an instruction.
ConstructionCalls ==
    BuiltinCalls \cup
    {"createQuadOp", "createNoContractionUnaryOp", "createNoContractionBinOp"}

\* The number of instructions of block b that have a result id.
ResultCount(b) ==
    Cardinality({k \in 1..Len(blocks[b].instructions) :
                    blocks[b].instructions[k].resultId # NoResult})

\* The same over the blocks b, b + 1, ...
RECURSIVE RecordsFrom(_)
RecordsFrom(b) ==
    IF b > MaxId THEN 0
    ELSE (IF b \in DOMAIN blocks THEN ResultCount(b) ELSE 0)
         + RecordsFrom(b + 1)

\* The result ids of the instructions and constant expressions built so far.
ResultIds == {r.resultId : r \in AllRecords} \ {NoResult}

\* The blocks the builders have allocated, counted by their allocations: two
\* by each constructor and one by each accepted makeBeginElse.
RECURSIVE BlocksAllocated(_)
BlocksAllocated(n) ==
    IF n = 0 THEN 0
    ELSE 2 + Cardinality({k \in 1..Len(hist[n].calls) :
                             hist[n].calls[k].name = "makeBeginElse"})
           + BlocksAllocated(n - 1)

\* Every id handed out so far names one block or one record, never both and
\* never two of them.
IdsDistinct ==
    /\ Cardinality(DOMAIN blocks) = 1 + BlocksAllocated(Len(ifs))
    /\ RecordsFrom(5) + Len(specConstants) = Cardinality(ResultIds)
    /\ ResultIds \cap DOMAIN blocks = {}
    /\ ResultIds \cup DOMAIN blocks = 5..uniqueId
    /\ \A i \in 1..Len(ifs) :
          /\ ifs[i].thenBlock # ifs[i].mergeBlock
          /\ ifs[i].elseBlock \notin {ifs[i].thenBlock, ifs[i].mergeBlock}
          /\ \A j \in 1..Len(ifs) :
                i # j => BlocksOf(i) \cap BlocksOf(j) = {}

\* C13: every instruction-construction call (createQuadOp in either mode, the
\* no-contraction wrappers, the three builtin calls) increments the id counter exactly once
\* and returns the id so allocated, which no block and no record had before;
\* and after every operation of the emitter or of an IfBuilder all result ids
\* and all block ids handed out are pairwise distinct.
C13_FreshIds ==
    [][/\ (lastCall'.name \in ConstructionCalls) =>
             /\ uniqueId' = uniqueId + 1
             /\ lastCall'.result = uniqueId'
             /\ uniqueId' \notin ResultIds \cup DOMAIN blocks
             /\ uniqueId' \in ResultIds'
       /\ IdsDistinct'
      ]_vars

C13_Witness ==
    /\ lastCall.name = "createNoContractionBinOp"
    /\ generatingOpCodeForSpecConst
    /\ <<lastCall.result, "DecorationNoContraction">> \in decorations
    /\ \E i \in 1..Len(ifs) : ifs[i].elseBlock # NullBlock
    /\ RecordsFrom(5) = 1
    /\ Last(specConstants).resultId = lastCall.result
    /\ IdsDistinct

-----------------------------------------------------------------------------
\* The selection merge makeEndIf is to emit for ib.
SelectionMerge(ib) ==
    [resultId |-> NoResult, typeId |-> NoType, opCode |-> "OpSelectionMerge",
     operands |-> << <<"id", ib.mergeBlock>>, <<"imm", ib.control>> >>]

\* C14: a makeEndIf that returns leaves, as the last two instructions of
\* header_block and in this order, the selection merge naming merge_block with
\* the control mask and the conditional branch on the condition to then_block
\* and to else_block if present, else merge_block, and header_block is then a
\* registered predecessor of both targets; the makeEndIf that closes the
\* builder appends exactly these two instructions to header_block, and no
\* other operation made between the construction and that makeEndIf changes
\* the instructions of header_block.
C14_HeaderSplit ==
    [][\A i \in 1..Len(ifs) :
          LET ib == ifs[i]
              before == blocks[ib.headerBlock].instructions
              after == blocks'[ib.headerBlock].instructions
          IN  IF lastCall'.name = "makeEndIf" /\ lastCall'.self = i /\ ~aborted'
              THEN /\ Len(after) >= Len(before) + 2
                   /\ ~Closed(hist[i].calls) => Len(after) = Len(before) + 2
                   /\ SubSeq(after, 1, Len(before)) = before
                   /\ after[Len(after) - 1] = SelectionMerge(ib)
                   /\ Last(after).opCode = "OpBranchConditional"
                   /\ Last(after).resultId = NoResult
                   /\ IdOperands(Last(after)) =
                         <<ib.condition, ib.thenBlock,
                           IF ib.elseBlock # NullBlock THEN ib.elseBlock
                           ELSE ib.mergeBlock>>
                   /\ ib.headerBlock \in blocks'[ib.thenBlock].predecessors
                   /\ ib.headerBlock \in
                         blocks'[IF ib.elseBlock # NullBlock THEN ib.elseBlock
                                 ELSE ib.mergeBlock].predecessors
              ELSE ~Closed(hist[i].calls) => after = before
      ]_vars

C14_Witness ==
    /\ lastCall.name = "makeEndIf"
    /\ ~aborted
    /\ LET ib == ifs[lastCall.self]
           ins == blocks[ib.headerBlock].instructions
       IN  /\ ib.elseBlock # NullBlock
           /\ Len(ins) = 3
           /\ ins[1].opCode \in {"OpQuadA", "OpQuadB"}
           /\ ins[2].opCode = "OpSelectionMerge"
           /\ ins[3].opCode = "OpBranchConditional"
           /\ Len(blocks[ib.thenBlock].instructions) = 2
           /\ blocks[ib.elseBlock].predecessors = {ib.headerBlock}

-----------------------------------------------------------------------------
\* The merge block of every builder not yet closed is in no place of the
\* function's block list.
MergeDetached ==
    \A i \in 1..Len(ifs) :
        ~Closed(hist[i].calls) => Positions(ifs[i].mergeBlock) = {}

\* C15: when the IfBuilder constructor returns, header_block is the block
\* that was the build point, then_block is a new block, the last of the
\* function's block list and the build point, merge_block is a new block that
\* is not in the function's block list, there is no else_block, both phi
\* parents are the header block's id, and no block got an instruction; and
\* merge_block stays out of the block list in every state until makeEndIf.
C15_AfterConstruction ==
    [][/\ (lastCall'.name = "IfBuilder") =>
             LET ib == Last(ifs')
             IN  /\ Len(ifs') = Len(ifs) + 1
                 /\ lastCall'.self = Len(ifs')
                 /\ ib.headerBlock = buildPoint
                 /\ ib.thenBlock \notin DOMAIN blocks
                 /\ ib.mergeBlock \notin DOMAIN blocks
                 /\ ib.thenBlock # ib.mergeBlock
                 /\ DOMAIN blocks' =
                       DOMAIN blocks \cup {ib.thenBlock, ib.mergeBlock}
                 /\ functionBlocks' = Append(functionBlocks, ib.thenBlock)
                 /\ buildPoint' = ib.thenBlock
                 /\ ib.elseBlock = NullBlock
                 /\ ib.thenPhiParent = buildPoint
                 /\ ib.elsePhiParent = buildPoint
                 /\ \A b \in DOMAIN blocks : blocks'[b] = blocks[b]
                 /\ blocks'[ib.thenBlock] = NewBlock
                 /\ blocks'[ib.mergeBlock] = NewBlock
                 /\ specConstants' = specConstants
       /\ MergeDetached'
      ]_vars

C15_Witness ==
    /\ lastCall.name = "IfBuilder"
    /\ lastCall.self = 2
    /\ hist[2].parent = 1
    /\ hist[2].region = "then"
    /\ ifs[2].headerBlock = ifs[1].thenBlock
    /\ blocks[ifs[2].headerBlock].instructions # <<>>
    /\ buildPoint = ifs[2].thenBlock
    /\ Last(functionBlocks) = ifs[2].thenBlock
    /\ Positions(ifs[2].mergeBlock) = {}

-----------------------------------------------------------------------------
\* The emitter states C16 names: constant-folding mode is off, or it has just
\* been switched on, after builder i was closed.
MergePhiCallable(i) ==
    /\ Closed(hist[i].calls)
    /\ generatingOpCodeForSpecConst => lastCall.name = "setCodeGenMode"

\* C16 as stated, the rejection read for the builds that have assertions: a
\* createMergePhi call made on a closed builder with the build point at
\* merge_block, with constant-folding mode off or switched on once the
\* construct is closed, appends exactly one OpPhi instruction to merge_block
\* and changes no other block, nor the build point, nor the function's block
\* list; in a build without NDEBUG a call made with the build point elsewhere
\* is rejected by the assertion.
C16_Original ==
    [][(lastCall'.name = "createMergePhi") =>
          LET ib == ifs[lastCall'.self]
              after == blocks'[ib.mergeBlock].instructions
          IN  IF buildPoint = ib.mergeBlock
              THEN MergePhiCallable(lastCall'.self) =>
                      /\ ~aborted'
                      /\ after # <<>>
                      /\ \E phi \in {after[k] : k \in {Len(after)} \ {0}} :
                            /\ phi.opCode = "OpPhi"
                            /\ phi.resultId = lastCall'.result
                            /\ blocks' = [blocks EXCEPT
                                             ![ib.mergeBlock].instructions =
                                                 Append(@, phi)]
                      /\ buildPoint' = buildPoint
                      /\ functionBlocks' = functionBlocks
              ELSE ~NDEBUG => aborted'
      ]_vars

-----------------------------------------------------------------------------
\* The only call made on the builder is makeEndIf(false).
ClosedWithoutBranch(h) ==
    Len(h) = 1 /\ h[1].name = "makeEndIf" /\ ~h[1].branchToMerge

\* The OpBranch instructions to block m, as <<block, place>>.
BranchesTo(m) ==
    {p \in (DOMAIN blocks) \X (1..MaxId) :
        /\ p[2] <= Len(blocks[p[1]].instructions)
        /\ blocks[p[1]].instructions[p[2]].opCode = "OpBranch"
        /\ blocks[p[1]].instructions[p[2]].operands = <<(<<"id", m>>)>>}

\* C17: for a builder closed by makeEndIf(false) with no makeBeginElse, no
\* block holds an unconditional branch to merge_block, the only predecessor
\* of merge_block is header_block, both phi parents are still the header
\* block's id, and the join a later createMergePhi builds has the header
\* block's id as both parent operands.
C17_SuppressedFallThrough ==
    \A i \in 1..Len(ifs) :
        ClosedWithoutBranch(hist[i].calls) =>
            /\ BranchesTo(ifs[i].mergeBlock) = {}
            /\ blocks[ifs[i].mergeBlock].predecessors = {ifs[i].headerBlock}
            /\ ifs[i].thenPhiParent = ifs[i].headerBlock
            /\ ifs[i].elsePhiParent = ifs[i].headerBlock
            /\ (lastCall.name = "createMergePhi" /\ lastCall.self = i
                   /\ ~aborted) =>
                  \E r \in AllRecords :
                      /\ r.resultId = lastCall.result
                      /\ IdOperands(r) =
                            <<lastCall.args[1], ifs[i].headerBlock,
                              lastCall.args[2], ifs[i].headerBlock>>

C17_Witness ==
    /\ lastCall.name = "createMergePhi"
    /\ ~aborted
    /\ ~generatingOpCodeForSpecConst
    /\ ClosedWithoutBranch(hist[lastCall.self].calls)
    /\ buildPoint = ifs[lastCall.self].mergeBlock
    /\ blocks[ifs[lastCall.self].thenBlock].instructions # <<>>
    /\ lastCall.args[1] \notin DOMAIN PreValues
    /\ Last(blocks[buildPoint].instructions).resultId = lastCall.result

-----------------------------------------------------------------------------
\* The phi parents of ib are two distinct blocks, both registered
\* predecessors of its merge block.
PhiParentsAreEdges(ib) ==
    /\ ib.thenPhiParent # ib.elsePhiParent
    /\ {ib.thenPhiParent, ib.elsePhiParent} \subseteq DOMAIN blocks
    /\ {ib.thenPhiParent, ib.elsePhiParent} \subseteq
          blocks[ib.mergeBlock].predecessors

\* C18 as stated: for every builder driven construction -> (makeBeginElse) ->
\* makeEndIf, whatever the branchToMerge values, with or without an else
\* region or nested builders, then_phi_parent and else_phi_parent are ids of
\* two distinct blocks that are both registered predecessors of merge_block.
C18_Original ==
    \A i \in 1..Len(ifs) :
        Driven(hist[i].calls) => PhiParentsAreEdges(ifs[i])

\* C18, amended: in a run whose builders are all driven construction ->
\* (makeBeginElse) -> makeEndIf and no further, for every builder closed with
\* branchToMerge = true at each transition, with or without an else region or
\* nested builders, then_phi_parent and else_phi_parent are ids of two
\* distinct blocks that are both registered predecessors of merge_block.
C18_PhiParentsWhenBranching ==
    WellDriven =>
        \A i \in 1..Len(ifs) :
            DrivenTrue(hist[i].calls) => PhiParentsAreEdges(ifs[i])

C18_Witness ==
    \E i \in 1..Len(ifs) :
        /\ WellDriven
        /\ DrivenTrue(hist[i].calls)
        /\ Len(hist[i].calls) = 2
        /\ \E j \in 1..Len(ifs) : ConstructedIn(j, i, "else")
        /\ ifs[i].elsePhiParent # ifs[i].elseBlock
        /\ ifs[i].thenPhiParent = ifs[i].thenBlock
        /\ blocks[ifs[i].mergeBlock].predecessors =
              {ifs[i].thenPhiParent, ifs[i].elsePhiParent}

-----------------------------------------------------------------------------
\* The last ConvertPrimitives call was made on a triangle fan of at least
\* three indices without primitive reset and got its buffer.
FanConverted ==
    /\ convertArgs.source_type = "kTriangleFan"
    /\ ~convertArgs.reset
    /\ convertArgs.index_count >= 3
    /\ allocation.mapped

\* C19 as stated: for a triangle fan without primitive reset and index_count
\* >= 3, in either index format, the 3 * (index_count - 2) indices the call
\* writes fit into the buffer AllocateIndices returned for it (the requested
\* count times the index size, rounded up to 16 bytes): every store lands in
\* the allocation and the call returns.
C19_Original ==
    FanConverted =>
        LET needed == 3 * (convertArgs.index_count - 2)
                        * IndexSize(convertArgs.index_format)
        IN  /\ needed <= allocation.size
            /\ 2 * Len(written) <= allocation.size
            /\ conversionResult = "kConverted"

\* v[i], the i-th index of the source of the last call.
SourceIndex(i) == ReadIndex(convertArgs.source, convertArgs.index_format, i)

\* The j-th index stored through target by the last call.
TargetIndex(j) == ReadIndex(written, convertArgs.index_format, j)

\* C20 as stated: for a triangle fan without primitive reset with source
\* indices v[0..n-1], n >= 3, in either index format, a call that got its
\* buffer and ran to its end returns kConverted with index_count_out =
\* 3 * (n - 2), and the k-th triangle it wrote is (v[k+1], v[k+2], v[0]).
C20_Original ==
    (FanConverted /\ conversionResult # "fault") =>
        LET n == convertArgs.index_count
        IN  /\ conversionResult = "kConverted"
            /\ index_count_out = 3 * (n - 2)
            /\ Len(written) * 2 =
                  3 * (n - 2) * IndexSize(convertArgs.index_format)
            /\ \A k \in 0..(n - 3) :
                  /\ TargetIndex(3 * k) = SourceIndex(k + 1)
                  /\ TargetIndex(3 * k + 1) = SourceIndex(k + 2)
                  /\ TargetIndex(3 * k + 2) = SourceIndex(0)

====
